---- MODULE Spec2Model ----
(***************************************************************************)
(* Model of src/uniforms/sampler.rs: the sampler enums and their           *)
(* translation to GL constants, the SamplerBehavior value type with its    *)
(* derived equality and hash, and the by-value builder Sampler.            *)
(*                                                                         *)
(* A Sampler is the tuple struct Sampler(&T, SamplerBehavior): here the    *)
(* pair <<texture, behavior>>, s[1] being `.0` and s[2] being `.1`.        *)
(* A SamplerBehavior is a record with the struct's five fields; the        *)
(* tuples wrap_function and border_color are sequences.                    *)
(***************************************************************************)
EXTENDS Integers, Sequences, FiniteSets

\* ------------------------------------------------------------------ bounds

\* Builder calls (and clones) made on the handles since the last construction.
MaxCalls == 3

\* ------------------------------------------------------------------- enums

SamplerWrapFunction == {"Repeat", "Mirror", "Clamp", "MirrorClamp", "BorderClamp"}

MagnifySamplerFilter == {"Nearest", "Linear"}

MinifySamplerFilter ==
    {"Nearest", "Linear", "NearestMipmapNearest", "LinearMipmapNearest",
     "NearestMipmapLinear", "LinearMipmapLinear"}

\* The values the generated GL bindings give the constants the source names
\* (the OpenGL registry's enumerant values, written in decimal).
gl_REPEAT == 10497
gl_MIRRORED_REPEAT == 33648
gl_CLAMP_TO_EDGE == 33071
gl_MIRROR_CLAMP_TO_EDGE == 34627
gl_CLAMP_TO_BORDER == 33069
gl_NEAREST == 9728
gl_LINEAR == 9729
gl_NEAREST_MIPMAP_NEAREST == 9984
gl_LINEAR_MIPMAP_NEAREST == 9985
gl_NEAREST_MIPMAP_LINEAR == 9986
gl_LINEAR_MIPMAP_LINEAR == 9987

\* gl::types::GLenum is a 32-bit unsigned integer: two 16-bit halves.
IsGLenum(n) == n \in Nat /\ n \div 65536 < 65536

SamplerWrapFunction_to_glenum(v) ==
    CASE v = "Repeat" -> gl_REPEAT
      [] v = "Mirror" -> gl_MIRRORED_REPEAT
      [] v = "Clamp" -> gl_CLAMP_TO_EDGE
      [] v = "MirrorClamp" -> gl_MIRROR_CLAMP_TO_EDGE
      [] v = "BorderClamp" -> gl_CLAMP_TO_BORDER

MagnifySamplerFilter_to_glenum(v) ==
    CASE v = "Nearest" -> gl_NEAREST
      [] v = "Linear" -> gl_LINEAR

\* A swap of two arms of the match.
MinifySamplerFilter_to_glenum_swapped(v) ==
    CASE v = "Nearest" -> gl_NEAREST
      [] v = "Linear" -> gl_LINEAR
      [] v = "NearestMipmapNearest" -> gl_NEAREST_MIPMAP_NEAREST
      [] v = "LinearMipmapNearest" -> gl_NEAREST_MIPMAP_LINEAR
      [] v = "NearestMipmapLinear" -> gl_LINEAR_MIPMAP_NEAREST
      [] v = "LinearMipmapLinear" -> gl_LINEAR_MIPMAP_LINEAR

MinifySamplerFilter_to_glenum(v) ==
    CASE v = "Nearest" -> gl_NEAREST
      [] v = "Linear" -> gl_LINEAR
      [] v = "NearestMipmapNearest" -> gl_NEAREST_MIPMAP_NEAREST
      [] v = "LinearMipmapNearest" -> gl_LINEAR_MIPMAP_NEAREST
      [] v = "NearestMipmapLinear" -> gl_NEAREST_MIPMAP_LINEAR
      [] v = "LinearMipmapLinear" -> gl_LINEAR_MIPMAP_LINEAR

\* ---------------------------------------------------------- SamplerBehavior

\* A default that tiles instead of mirroring.
Default_repeat ==
    [wrap_function |-> <<"Repeat", "Repeat", "Repeat">>,
     border_color |-> <<0, 0, 0, 0>>,
     minify_filter |-> "LinearMipmapLinear",
     magnify_filter |-> "Linear",
     max_anisotropy |-> 1]

\* impl Default for SamplerBehavior
Default ==
    [wrap_function |-> <<"Mirror", "Mirror", "Mirror">>,
     border_color |-> <<0, 0, 0, 0>>,
     minify_filter |-> "LinearMipmapLinear",
     magnify_filter |-> "Linear",
     max_anisotropy |-> 1]

HasBorderClamp(b) == \E i \in 1..3 : b.wrap_function[i] = "BorderClamp"

\* An equality that skips border_color while no axis uses it.
SamplerBehavior_eq_skips_unused_border(a, b) ==
    /\ a.wrap_function[1] = b.wrap_function[1]
    /\ a.wrap_function[2] = b.wrap_function[2]
    /\ a.wrap_function[3] = b.wrap_function[3]
    /\ (HasBorderClamp(a) =>
          /\ a.border_color[1] = b.border_color[1]
          /\ a.border_color[2] = b.border_color[2]
          /\ a.border_color[3] = b.border_color[3]
          /\ a.border_color[4] = b.border_color[4])
    /\ a.minify_filter = b.minify_filter
    /\ a.magnify_filter = b.magnify_filter
    /\ a.max_anisotropy = b.max_anisotropy

\* #[derive(PartialEq, Eq)] on SamplerBehavior: the fields in order, the tuples
\* element by element.
SamplerBehavior_eq(a, b) ==
    /\ a.wrap_function[1] = b.wrap_function[1]
    /\ a.wrap_function[2] = b.wrap_function[2]
    /\ a.wrap_function[3] = b.wrap_function[3]
    /\ a.border_color[1] = b.border_color[1]
    /\ a.border_color[2] = b.border_color[2]
    /\ a.border_color[3] = b.border_color[3]
    /\ a.border_color[4] = b.border_color[4]
    /\ a.minify_filter = b.minify_filter
    /\ a.magnify_filter = b.magnify_filter
    /\ a.max_anisotropy = b.max_anisotropy

\* The discriminants of the three enums, in declaration order.
SamplerWrapFunction_discriminant(v) ==
    CASE v = "Repeat" -> 0
      [] v = "Mirror" -> 1
      [] v = "Clamp" -> 2
      [] v = "MirrorClamp" -> 3
      [] v = "BorderClamp" -> 4

MagnifySamplerFilter_discriminant(v) ==
    CASE v = "Nearest" -> 0
      [] v = "Linear" -> 1

MinifySamplerFilter_discriminant(v) ==
    CASE v = "Nearest" -> 0
      [] v = "Linear" -> 1
      [] v = "NearestMipmapNearest" -> 2
      [] v = "LinearMipmapNearest" -> 3
      [] v = "NearestMipmapLinear" -> 4
      [] v = "LinearMipmapLinear" -> 5

\* #[derive(Hash)] on SamplerBehavior: what is written to the Hasher, in order.
SamplerBehavior_hash(b) ==
    << SamplerWrapFunction_discriminant(b.wrap_function[1]),
       SamplerWrapFunction_discriminant(b.wrap_function[2]),
       SamplerWrapFunction_discriminant(b.wrap_function[3]),
       b.border_color[1], b.border_color[2], b.border_color[3], b.border_color[4],
       MinifySamplerFilter_discriminant(b.minify_filter),
       MagnifySamplerFilter_discriminant(b.magnify_filter),
       b.max_anisotropy >>

\* ------------------------------------------------------------------ Sampler

\* #[derive(PartialEq, Eq)] on Sampler: the referenced texture, then the behavior.
Sampler_eq(a, b) == a[1] = b[1] /\ SamplerBehavior_eq(a[2], b[2])

\* A constructor that starts with anisotropic filtering at level 0.
new_zero_anisotropy(texture) == <<texture, [Default EXCEPT !.max_anisotropy = 0]>>

new(texture) == <<texture, Default>>

\* A setter that drops the color while no axis is BorderClamp.
border_color_only_if_used(self, color) ==
    IF HasBorderClamp(self[2])
    THEN <<self[1], [self[2] EXCEPT !.border_color = color]>>
    ELSE self

border_color(self, color) == <<self[1], [self[2] EXCEPT !.border_color = color]>>

\* A setter that writes the X axis only.
wrap_function_x_only(self, function) ==
    <<self[1], [self[2] EXCEPT !.wrap_function[1] = function]>>

wrap_function(self, function) ==
    <<self[1], [self[2] EXCEPT !.wrap_function = <<function, function, function>>]>>

\* A setter that also puts the magnifying filter back to its default.
minify_filter_resets_magnify(self, filter) ==
    <<self[1], [self[2] EXCEPT !.minify_filter = filter,
                               !.magnify_filter = Default.magnify_filter]>>

minify_filter(self, filter) == <<self[1], [self[2] EXCEPT !.minify_filter = filter]>>

\* A setter that keeps a filter that was already chosen.
magnify_filter_first_write(self, filter) ==
    IF self[2].magnify_filter = Default.magnify_filter
    THEN <<self[1], [self[2] EXCEPT !.magnify_filter = filter]>>
    ELSE self

magnify_filter(self, filter) == <<self[1], [self[2] EXCEPT !.magnify_filter = filter]>>

\* A setter that refuses levels below 1.
anisotropy_at_least_one(self, level) ==
    <<self[1], [self[2] EXCEPT !.max_anisotropy = IF level < 1 THEN 1 ELSE level]>>

anisotropy(self, level) == <<self[1], [self[2] EXCEPT !.max_anisotropy = level]>>

\* A clone that rebuilds the sampler from its texture.
clone_rebuilds(self) == new(self[1])

\* impl Clone for Sampler: *self
clone(self) == self

\* The builder method named op, applied to self with argument arg.
Apply(self, op, arg) ==
    CASE op = "border_color" -> border_color(self, arg)
      [] op = "wrap_function" -> wrap_function(self, arg)
      [] op = "minify_filter" -> minify_filter(self, arg)
      [] op = "magnify_filter" -> magnify_filter(self, arg)
      [] op = "anisotropy" -> anisotropy(self, arg)

\* ------------------------------------------------------------------ inputs

Textures == {"t1", "t2"}

\* (u8, u8, u8, u8): the default, the spec's example, both ends of the range.
ColorInputs == {<<0, 0, 0, 0>>, <<255, 0, 128, 64>>, <<255, 255, 255, 255>>}

ChannelInputs == {0, 64, 128, 255}

\* u16: both ends of the range and a usual level.
LevelInputs == {0, 4, 65535}

\* Behaviors built field by field (the struct's fields are public).
BehaviorInputs ==
    { [wrap_function |-> <<"Repeat", "Clamp", "MirrorClamp">>,
       border_color |-> <<0, 0, 0, 0>>,
       minify_filter |-> "Nearest",
       magnify_filter |-> "Nearest",
       max_anisotropy |-> 16],
      [wrap_function |-> <<"Clamp", "BorderClamp", "Mirror">>,
       border_color |-> <<255, 0, 128, 64>>,
       minify_filter |-> "LinearMipmapLinear",
       magnify_filter |-> "Linear",
       max_anisotropy |-> 1] }

Setters == {"border_color", "wrap_function", "minify_filter", "magnify_filter", "anisotropy"}

Arguments(op) ==
    CASE op = "border_color" -> ColorInputs
      [] op = "wrap_function" -> SamplerWrapFunction
      [] op = "minify_filter" -> MinifySamplerFilter
      [] op = "magnify_filter" -> MagnifySamplerFilter
      [] op = "anisotropy" -> LevelInputs

\* ------------------------------------------------------------------- state

VARIABLES
    sampler,   \* the caller's Sampler value
    copy,      \* a copy of it held in a second binding, <<>> while there is none
    before,    \* the value the last call consumed (its self), <<>> at a construction
    call,      \* the last call: <<op, argument, handle>>
    trace,     \* for sampler: how it was built and the last argument given to each setter
    snap,      \* the value sampler had when copy was made, and who was called since
    glenum,    \* the last translation: <<enum, variant, constant>>, or <<>>
    calls      \* builder calls and clones since the construction

vars == <<sampler, copy, before, call, trace, snap, glenum, calls>>

Handles == {"sampler", "copy"}

NoTrace ==
    [from_new |-> FALSE, texture |-> "", border_color |-> <<>>, wrap_function |-> <<>>,
     minify_filter |-> <<>>, magnify_filter |-> <<>>, anisotropy |-> <<>>]

NewTrace(t) == [NoTrace EXCEPT !.from_new = TRUE, !.texture = t]

NoSnap == [made |-> FALSE, at |-> <<>>, sampler_called |-> FALSE, copy_called |-> FALSE]

Held(h) == IF h = "sampler" THEN sampler ELSE copy

\* The value the last call returned.
Result == IF call[3] = "sampler" THEN sampler ELSE copy

Init ==
    /\ \E t \in Textures :
         /\ sampler = new(t)
         /\ call = <<"new", t, "sampler">>
         /\ trace = NewTrace(t)
    /\ copy = <<>>
    /\ before = <<>>
    /\ snap = NoSnap
    /\ glenum = <<>>
    /\ calls = 0

\* let sampler = Sampler::new(&t);
New ==
    \E t \in Textures :
        /\ sampler' = new(t)
        /\ call' = <<"new", t, "sampler">>
        /\ trace' = NewTrace(t)
        /\ copy' = <<>>
        /\ before' = <<>>
        /\ snap' = NoSnap
        /\ calls' = 0
        /\ UNCHANGED glenum

\* let sampler = Sampler(&t, SamplerBehavior { ... });
Construct ==
    \E t \in Textures, b \in BehaviorInputs :
        /\ sampler' = <<t, b>>
        /\ call' = <<"fields", t, "sampler">>
        /\ trace' = NoTrace
        /\ copy' = <<>>
        /\ before' = <<>>
        /\ snap' = NoSnap
        /\ calls' = 0
        /\ UNCHANGED glenum

\* let h = h.op(arg);  the method consumes the value h holds and h is bound to
\* the value it returns.
Rebind(h, op, arg, result) ==
    /\ calls < MaxCalls
    /\ Held(h) # <<>>
    /\ before' = Held(h)
    /\ call' = <<op, arg, h>>
    /\ sampler' = IF h = "sampler" THEN result ELSE sampler
    /\ copy' = IF h = "copy" THEN result ELSE copy
    /\ trace' = IF h = "sampler" THEN [trace EXCEPT ![op] = <<arg>>] ELSE trace
    /\ snap' = IF ~snap.made THEN snap
               ELSE IF h = "sampler" THEN [snap EXCEPT !.sampler_called = TRUE]
               ELSE [snap EXCEPT !.copy_called = TRUE]
    /\ calls' = calls + 1
    /\ UNCHANGED glenum

BorderColor(h) ==
    \E color \in ColorInputs : Rebind(h, "border_color", color, border_color(Held(h), color))

WrapFunction(h) ==
    \E function \in SamplerWrapFunction :
        Rebind(h, "wrap_function", function, wrap_function(Held(h), function))

MinifyFilter(h) ==
    \E filter \in MinifySamplerFilter :
        Rebind(h, "minify_filter", filter, minify_filter(Held(h), filter))

MagnifyFilter(h) ==
    \E filter \in MagnifySamplerFilter :
        Rebind(h, "magnify_filter", filter, magnify_filter(Held(h), filter))

Anisotropy(h) ==
    \E level \in LevelInputs : Rebind(h, "anisotropy", level, anisotropy(Held(h), level))

\* let copy = sampler.clone();  (or let copy = sampler;  Sampler is Copy)
Clone ==
    /\ calls < MaxCalls
    /\ copy' = clone(sampler)
    /\ snap' = [made |-> TRUE, at |-> sampler, sampler_called |-> FALSE, copy_called |-> FALSE]
    /\ before' = sampler
    /\ call' = <<"clone", <<>>, "copy">>
    /\ calls' = calls + 1
    /\ UNCHANGED <<sampler, trace, glenum>>

Next ==
    \/ New
    \/ Construct
    \/ BorderColor("sampler")
    \/ WrapFunction("sampler")
    \/ MinifyFilter("sampler")
    \/ MagnifyFilter("sampler")
    \/ Anisotropy("sampler")

Spec == Init /\ [][Next]_vars

\* Two bindings: the sampler, a copy of it, and builder calls on either.
NextCopy ==
    \/ Construct
    \/ Clone
    \/ \E h \in Handles : BorderColor(h)
    \/ \E h \in Handles : WrapFunction(h)
    \/ \E h \in Handles : MinifyFilter(h)
    \/ \E h \in Handles : MagnifyFilter(h)
    \/ \E h \in Handles : Anisotropy(h)

SpecCopy == Init /\ [][NextCopy]_vars

\* Translation: a sampler with any wrap functions and filters, whose fields are
\* translated one at a time.
InitGl ==
    /\ \E t \in Textures, x \in SamplerWrapFunction, y \in SamplerWrapFunction,
          z \in SamplerWrapFunction, mn \in MinifySamplerFilter, mg \in MagnifySamplerFilter :
         sampler = <<t, [Default EXCEPT !.wrap_function = <<x, y, z>>,
                                        !.minify_filter = mn,
                                        !.magnify_filter = mg]>>
    /\ call = <<"fields", sampler[1], "sampler">>
    /\ trace = NoTrace
    /\ copy = <<>>
    /\ before = <<>>
    /\ snap = NoSnap
    /\ glenum = <<>>
    /\ calls = 0

WrapToGlEnum ==
    \E axis \in 1..3 :
        /\ glenum' = <<"SamplerWrapFunction", sampler[2].wrap_function[axis],
                       SamplerWrapFunction_to_glenum(sampler[2].wrap_function[axis])>>
        /\ UNCHANGED <<sampler, copy, before, call, trace, snap, calls>>

MagnifyToGlEnum ==
    /\ glenum' = <<"MagnifySamplerFilter", sampler[2].magnify_filter,
                   MagnifySamplerFilter_to_glenum(sampler[2].magnify_filter)>>
    /\ UNCHANGED <<sampler, copy, before, call, trace, snap, calls>>

MinifyToGlEnum ==
    /\ glenum' = <<"MinifySamplerFilter", sampler[2].minify_filter,
                   MinifySamplerFilter_to_glenum(sampler[2].minify_filter)>>
    /\ UNCHANGED <<sampler, copy, before, call, trace, snap, calls>>

NextGl ==
    \/ WrapToGlEnum
    \/ MagnifyToGlEnum
    \/ MinifyToGlEnum

SpecGl == InitGl /\ [][NextGl]_vars

\* ------------------------------------------------------------------ claims

IsBuilderCall == call[1] \in Setters

\* Every field of behavior a but the named one equals b's.
SameBut(a, b, field) ==
    /\ (field # "wrap_function" => a.wrap_function = b.wrap_function)
    /\ (field # "border_color" => a.border_color = b.border_color)
    /\ (field # "minify_filter" => a.minify_filter = b.minify_filter)
    /\ (field # "magnify_filter" => a.magnify_filter = b.magnify_filter)
    /\ (field # "max_anisotropy" => a.max_anisotropy = b.max_anisotropy)

\* C1: the behavior SamplerBehavior::default() returns (the one Sampler::new
\* stores) is wrap_function = (Mirror, Mirror, Mirror), border_color = (0,0,0,0),
\* minify_filter = LinearMipmapLinear, magnify_filter = Linear, max_anisotropy = 1.
C1_DefaultValues ==
    call[1] = "new" =>
        /\ sampler[2].wrap_function = <<"Mirror", "Mirror", "Mirror">>
        /\ sampler[2].border_color = <<0, 0, 0, 0>>
        /\ sampler[2].minify_filter = "LinearMipmapLinear"
        /\ sampler[2].magnify_filter = "Linear"
        /\ sampler[2].max_anisotropy = 1
        /\ DOMAIN sampler[2] =
             {"wrap_function", "border_color", "minify_filter", "magnify_filter",
              "max_anisotropy"}

\* Sampler::new has stored the behavior default() returned.
C1_Witness == call[1] = "new" /\ before = <<>> /\ sampler[2] = Default /\ trace.from_new

\* C2: Sampler::new(t) returns a Sampler whose texture reference is t and whose
\* behavior equals SamplerBehavior::default() in all five fields.
C2_NewIsDefault ==
    call[1] = "new" =>
        /\ Len(sampler) = 2
        /\ sampler[1] = call[2]
        /\ SamplerBehavior_eq(sampler[2], Default)

C2_Witness == call = <<"new", "t2", "sampler">> /\ sampler[1] = "t2"

\* C3: s.wrap_function(f) has wrap_function (f, f, f), whatever the three axes
\* of s were, and the other four fields and the texture reference of s.
C3_WrapFunctionAllAxes ==
    call[1] = "wrap_function" =>
        /\ Result[2].wrap_function = <<call[2], call[2], call[2]>>
        /\ SameBut(Result[2], before[2], "wrap_function")
        /\ Result[1] = before[1]

\* wrap_function was called on a sampler whose three axes all differed.
C3_Witness ==
    /\ call[1] = "wrap_function"
    /\ before[2].wrap_function[1] # before[2].wrap_function[2]
    /\ before[2].wrap_function[2] # before[2].wrap_function[3]
    /\ before[2].wrap_function[1] # before[2].wrap_function[3]
    /\ call[2] \notin {before[2].wrap_function[i] : i \in 1..3}

\* C4: setters of different fields commute: with s the sampler the last call
\* was made on and that call's setter and argument, every call of another setter
\* made before it instead of after it gives the same behavior.
C4_SettersCommute ==
    IsBuilderCall =>
        \A op \in Setters \ {call[1]} : \A arg \in Arguments(op) :
            Apply(Apply(before, call[1], call[2]), op, arg)[2]
              = Apply(Apply(before, op, arg), call[1], call[2])[2]

\* Two calls of different setters were made, both changing the sampler.
C4_Witness ==
    /\ IsBuilderCall
    /\ calls = 2
    /\ trace.from_new
    /\ Cardinality({op \in Setters : trace[op] # <<>>}) = 2
    /\ sampler # before
    /\ before # new(trace.texture)

SingleFieldChanges(b) ==
    {[b EXCEPT !.wrap_function[i] = f] : i \in 1..3, f \in SamplerWrapFunction}
      \cup {[b EXCEPT !.border_color[i] = v] : i \in 1..4, v \in ChannelInputs}
      \cup {[b EXCEPT !.minify_filter = f] : f \in MinifySamplerFilter}
      \cup {[b EXCEPT !.magnify_filter = f] : f \in MagnifySamplerFilter}
      \cup {[b EXCEPT !.max_anisotropy = l] : l \in LevelInputs}

\* C6: two behaviors are equal exactly when the three wrap axes, the four color
\* channels and the three other fields are all equal, equal behaviors write the
\* same to a hasher, and a behavior changed in one field is unequal to the other.
C6_StructuralEquality ==
    copy # <<>> =>
        LET a == sampler[2]
            b == copy[2]
        IN  /\ SamplerBehavior_eq(a, b) <=>
                 /\ \A i \in 1..3 : a.wrap_function[i] = b.wrap_function[i]
                 /\ \A i \in 1..4 : a.border_color[i] = b.border_color[i]
                 /\ a.minify_filter = b.minify_filter
                 /\ a.magnify_filter = b.magnify_filter
                 /\ a.max_anisotropy = b.max_anisotropy
            /\ SamplerBehavior_eq(a, b) => SamplerBehavior_hash(a) = SamplerBehavior_hash(b)
            /\ \A c \in SingleFieldChanges(b) :
                 /\ c # b => ~SamplerBehavior_eq(c, b) /\ ~SamplerBehavior_eq(b, c)
                 /\ c = b => SamplerBehavior_eq(c, b)

\* The copy differs from the sampler in border_color alone, no axis being BorderClamp.
C6_Witness ==
    /\ copy # <<>>
    /\ copy[2].border_color # sampler[2].border_color
    /\ SameBut(copy[2], sampler[2], "border_color")
    /\ ~HasBorderClamp(copy[2])

\* C7: a copy has the sampler's texture reference and an equal behavior; builder
\* calls on the copy alone leave the sampler as it was when the copy was made,
\* and builder calls on the sampler alone leave the copy as it was made.
C7_CopyIndependent ==
    /\ call[1] = "clone" => copy[1] = sampler[1] /\ SamplerBehavior_eq(copy[2], sampler[2])
    /\ snap.made /\ ~snap.sampler_called => sampler = snap.at
    /\ snap.made /\ ~snap.copy_called => copy = snap.at

\* A changed sampler was copied and the copy then changed twice.
C7_Witness ==
    /\ snap.made
    /\ snap.copy_called
    /\ ~snap.sampler_called
    /\ calls = MaxCalls
    /\ snap.at[2] # Default
    /\ copy[2] # sampler[2]
    /\ before # sampler

C9_BorderColorNoEffect ==
    call[1] = "border_color" /\ ~HasBorderClamp(before[2]) => Sampler_eq(Result, before)

\* C9, amended: border_color(c) on a sampler with no BorderClamp axis stores c
\* all the same, and the result compares equal to the sampler it was called on
\* exactly when c is the color that sampler already had.
C9_BorderColorStoredRegardless ==
    call[1] = "border_color" /\ ~HasBorderClamp(before[2]) =>
        /\ Result[2].border_color = call[2]
        /\ Sampler_eq(Result, before) <=> call[2] = before[2].border_color

\* border_color was called with a new color on a sampler with no BorderClamp axis.
C9_Witness ==
    /\ call[1] = "border_color"
    /\ ~HasBorderClamp(before[2])
    /\ call[2] # before[2].border_color

\* The value a field has after the calls recorded in trace: the last argument
\* given to its setter, or the default.
LastWritten(op, default) == IF trace[op] = <<>> THEN default ELSE trace[op][1]

\* C10: after Sampler::new(t) and any builder calls, the texture reference is t
\* and each field holds the last argument given to its setter ((f, f, f) for
\* wrap_function) or its default; the last call made once more changes nothing.
C10_LastWriteWins ==
    /\ trace.from_new =>
         /\ sampler[1] = trace.texture
         /\ sampler[2].border_color = LastWritten("border_color", <<0, 0, 0, 0>>)
         /\ sampler[2].wrap_function =
              (IF trace.wrap_function = <<>> THEN <<"Mirror", "Mirror", "Mirror">>
               ELSE <<trace.wrap_function[1], trace.wrap_function[1], trace.wrap_function[1]>>)
         /\ sampler[2].minify_filter = LastWritten("minify_filter", "LinearMipmapLinear")
         /\ sampler[2].magnify_filter = LastWritten("magnify_filter", "Linear")
         /\ sampler[2].max_anisotropy = LastWritten("anisotropy", 1)
    /\ IsBuilderCall => Apply(Result, call[1], call[2]) = Result

\* A setter was called, another, and the first again with another argument.
C10_Witness ==
    /\ trace.from_new
    /\ calls = 3
    /\ Cardinality({op \in Setters : trace[op] # <<>>}) = 2
    /\ call[1] = "wrap_function"
    /\ before[2].wrap_function \notin {Default.wrap_function, sampler[2].wrap_function}
    /\ before[2].max_anisotropy = 65535

====
